---- MODULE Spec2Model ----
(***************************************************************************)
(* Model of app/static/js/main.js, the client script of BazaarHub: toast  *)
(* notifications, the profile dropdown and logout.                         *)
(*                                                                         *)
(* main.js is ONE script.  It declares showToast, validateEmail,           *)
(* validateMobile, initializeProfileDropdown, showDropdown, hideDropdown   *)
(* and performLogout twice (lines 2-227 and lines 229-417).  Function      *)
(* declarations are hoisted and a later declaration of a name replaces an  *)
(* earlier one before any statement runs, so every call in the script      *)
(* reaches the declarations of lines 229-417.  The two                     *)
(* document.addEventListener('DOMContentLoaded', ...) statements (lines 43 *)
(* and 263) are statements, not declarations: both listeners are           *)
(* registered and both run, in that order, when the page is ready.         *)
(*                                                                         *)
(* One action is one browser task: a DOM event dispatch with all the       *)
(* listeners it reaches, or one timer callback.  Timers are pending until  *)
(* they fire; their relative order is left open.                           *)
(***************************************************************************)
EXTENDS Integers, Sequences, FiniteSets, TLC

\* ---------------------------------------------------------------- bounds
MaxLogoutClicks == 2        \* activations of the logout item explored
MaxMobileLen == 13          \* longest string given to validateMobile
MaxEmailLen == 6            \* longest string given to validateEmail

\* ------------------------------------------------------ program constants
maxAttempts == 5            \* main.js:52 and main.js:269
MobileMin == 10             \* main.js:258, {10,12}
MobileMax == 12             \* main.js:258, {10,12}

Loops == {1, 2}             \* 1: tryInitialize of lines 54-75, 2: of lines 271-286
Targets == {"toggle", "menu", "logout", "profile", "outside"}
Keys == {"Escape", "Enter"}
Responses == {"ok", "error", "unreachable"}
CookieNames == {"session_id", "user_email", "user_session"}

VARIABLES
    \* the page's markup (the external collaborator)
    container,              \* an element .profile-dropdown is in the document
    toggle,                 \* .profile-picture-btn is inside the container
    menu,                   \* .custom-dropdown-menu is inside the container
    toastContainer,         \* #toast-container is in the document
    \* the hosting page
    phase,                  \* "loading" until DOMContentLoaded has been dispatched
    location,               \* "page", or the URL the page navigated away to
    cookies,                \* names of the cookies document.cookie holds
    server,                 \* what GET /logout would answer
    requests,               \* number of GET /logout requests sent
    uncaught,               \* number of errors that escaped a listener or callback
    \* DOMContentLoaded closures
    readyContainer,         \* const dropdownContainer of line 48
    attempts,               \* let attempts of each loop (lines 51, 268)
    pendingInit,            \* loops with a setTimeout(tryInitialize, ..) outstanding
    setupResult,            \* what the last attempt of each loop logged
    \* dropdown
    open,                   \* class dropdown-open on the container
    menuShow,               \* class show on the menu panel
    nextId,                 \* closures created by initializeProfileDropdown so far
    toggleL,                \* handleToggleClick closures listening on the toggle
    docL,                   \* handleDocumentClick closures listening on document
    keyL,                   \* handleEscapeKey closures listening on document
    logoutL,                \* anonymous click listeners on #logout-btn
    profileL,               \* anonymous click listeners on a[href="/profile"]
    clickHandler,           \* dropdownToggle._clickHandler (0: unset)
    dropdownClickListener,  \* dropdownContainer._dropdownClickListener (0: unset)
    escapeKeyListener,      \* dropdownContainer._escapeKeyListener (0: unset)
    cleanupDropdown,        \* dropdownContainer.cleanupDropdown (0: unset)
    \* notifier and logout
    toasts,                 \* every toast created, in order: [kind, attached, timer]
    navPending,             \* outstanding timers that assign window.location.href = '/'
    \* history of the user's input
    logoutClicks,           \* activations of the logout item so far
    lastEvent,              \* the event dispatched last and the marker it found
    \* validator
    input,                  \* the string a validator is called with
    verdict                 \* the validator called last and what it returned

domVars == <<container, toggle, menu, toastContainer>>
pageVars == <<phase, location, cookies, server, requests, uncaught>>
initVars == <<readyContainer, attempts, pendingInit, setupResult>>
listenerVars == <<nextId, toggleL, docL, keyL, logoutL, profileL, clickHandler,
                  dropdownClickListener, escapeKeyListener, cleanupDropdown>>
dropVars == <<open, menuShow>>
notifyVars == <<toasts, navPending>>
histVars == <<logoutClicks, lastEvent>>
validatorVars == <<input, verdict>>
vars == <<domVars, pageVars, initVars, listenerVars, dropVars, notifyVars, histVars,
          validatorVars>>

\* toggleRan: how often handleToggleClick ran in the dispatch (its log, line 316).
NoEvent == [type |-> "none", target |-> "none", wasOpen |-> FALSE, toggleRan |-> 0]

NoVerdict == [fn |-> "none", value |-> FALSE]

\* The page once the script has been evaluated.
PageInit ==
    /\ container \in BOOLEAN
    /\ toggle \in BOOLEAN
    /\ menu \in BOOLEAN
    /\ (toggle \/ menu) => container
    /\ toastContainer \in BOOLEAN
    /\ phase = "loading"
    /\ location = "page"
    /\ cookies = CookieNames
    /\ server \in Responses
    /\ requests = 0
    /\ uncaught = 0
    /\ readyContainer = FALSE
    /\ attempts = [l \in Loops |-> 0]
    /\ pendingInit = {}
    /\ setupResult = [l \in Loops |-> "none"]
    /\ open = FALSE
    /\ menuShow = FALSE
    /\ nextId = 0
    /\ toggleL = {}
    /\ docL = {}
    /\ keyL = {}
    /\ logoutL = {}
    /\ profileL = {}
    /\ clickHandler = 0
    /\ dropdownClickListener = 0
    /\ escapeKeyListener = 0
    /\ cleanupDropdown = 0
    /\ toasts = <<>>
    /\ navPending = 0
    /\ logoutClicks = 0
    /\ lastEvent = NoEvent

\* Nothing in the script calls a validator.
Init ==
    /\ PageInit
    /\ input = <<>>
    /\ verdict = NoVerdict

\* The page is still the one the script runs in.
Alive == location = "page"

\* ------------------------------------------------------------ page markup
\* The page inserts the dropdown's elements; they stay once inserted.
InsertContainer ==
    /\ Alive
    /\ UNCHANGED validatorVars
    /\ ~container
    /\ container' = TRUE
    /\ UNCHANGED <<toggle, menu, toastContainer, pageVars, initVars, listenerVars,
                   dropVars, notifyVars, histVars>>

InsertToggle ==
    /\ Alive
    /\ UNCHANGED validatorVars
    /\ container
    /\ ~toggle
    /\ toggle' = TRUE
    /\ UNCHANGED <<container, menu, toastContainer, pageVars, initVars, listenerVars,
                   dropVars, notifyVars, histVars>>

InsertMenu ==
    /\ Alive
    /\ UNCHANGED validatorVars
    /\ container
    /\ ~menu
    /\ menu' = TRUE
    /\ UNCHANGED <<container, toggle, toastContainer, pageVars, initVars, listenerVars,
                   dropVars, notifyVars, histVars>>

\* document.getElementById('logout-btn'): the logout item is part of the menu panel.
logoutBtn == menu

\* dropdownMenu.querySelector('a[href="/profile"]'): part of the menu panel.
profileBtn == menu

\* ------------------------------------------------------------- page ready
\* Both DOMContentLoaded listeners run in registration order in one dispatch.
\* The first (lines 43-82) schedules its tryInitialize only when the container
\* exists; the second (lines 263-290) schedules its own unconditionally.
DOMContentLoaded ==
    /\ Alive
    /\ UNCHANGED validatorVars
    /\ phase = "loading"
    /\ phase' = "ready"
    /\ readyContainer' = container
    /\ pendingInit' = (IF container THEN {1} ELSE {}) \cup {2}
    /\ UNCHANGED <<domVars, location, cookies, server, requests, uncaught, attempts,
                   setupResult, listenerVars, dropVars, notifyVars, histVars>>

\* ------------------------------------------------------------------ setup
\* The guard of lines 304-307 without its check of the menu panel.
ElementsFoundNoMenu == container /\ toggle

\* The guard of lines 304-307: all three elements were found.
ElementsFound == container /\ toggle /\ menu

\* initializeProfileDropdown never throws: the lookups of lines 296-298 use
\* optional chaining and missing elements take the early return of line 306.
InitThrows == FALSE

\* initializeProfileDropdown (lines 293-389).  With an element missing it logs
\* and returns.  Otherwise it creates fresh closures (numbered nextId + 1) and
\* adds them as listeners, next to whatever listeners are already there, and
\* overwrites the references cleanupDropdown will later read.
initializeProfileDropdown ==
    IF ~ElementsFound
    THEN UNCHANGED listenerVars
    ELSE LET id == nextId + 1 IN
         /\ nextId' = id
         /\ toggleL' = toggleL \cup {id}
         /\ clickHandler' = id
         /\ docL' = docL \cup {id}
         /\ dropdownClickListener' = id
         /\ logoutL' = IF logoutBtn THEN logoutL \cup {id} ELSE logoutL
         /\ profileL' = IF profileBtn THEN profileL \cup {id} ELSE profileL
         /\ keyL' = keyL \cup {id}
         /\ escapeKeyListener' = id
         /\ cleanupDropdown' = id

\* Loop 1 (line 60-61) looks the container up again before it calls setup;
\* loop 2 (line 276) calls setup whatever the document holds.
CallsSetup(l) == IF l = 1 THEN container ELSE TRUE

\* The catch block's condition (lines 70, 281), reached only after a throw.
Retries(threw, n) == threw /\ n < maxAttempts

\* tryInitialize of loop l, run by its timer (lines 54-75, 271-286).
tryInitialize(l) ==
    /\ Alive
    /\ UNCHANGED validatorVars
    /\ l \in pendingInit
    /\ attempts' = [attempts EXCEPT ![l] = @ + 1]
    /\ IF CallsSetup(l)
       THEN /\ initializeProfileDropdown
            /\ setupResult' = [setupResult EXCEPT
                                 ![l] = IF ElementsFound THEN "bound" ELSE "missing"]
       ELSE /\ UNCHANGED listenerVars
            /\ setupResult' = [setupResult EXCEPT ![l] = "skipped"]
    /\ pendingInit' = IF Retries(CallsSetup(l) /\ InitThrows, attempts'[l])
                      THEN pendingInit
                      ELSE pendingInit \ {l}
    /\ UNCHANGED <<domVars, pageVars, readyContainer, dropVars, notifyVars, histVars>>

\* --------------------------------------------------------------- dropdown
\* showDropdown (lines 391-396) and hideDropdown (lines 398-403) look the
\* container up again; o is the open marker before, the result the marker after.
showDropdown(o) == IF container THEN TRUE ELSE o

hideDropdown(o) == IF container THEN FALSE ELSE o

\* handleToggleClick (lines 315-327): isOpen is read from the MENU's class
\* 'show' (line 320), not from the container's 'dropdown-open'.
handleToggleClick(o) == IF menuShow THEN hideDropdown(o) ELSE showDropdown(o)

InMenu(t) == t \in {"menu", "logout", "profile"}

InToggle(t) == t = "toggle"

\* handleDocumentClick without its check of the menu panel.
handleDocumentClickToggleOnly(t, o) ==
    IF ~InToggle(t) THEN hideDropdown(o) ELSE o

\* handleDocumentClick (lines 333-337).
handleDocumentClick(t, o) ==
    IF ~InMenu(t) /\ ~InToggle(t) THEN hideDropdown(o) ELSE o

\* handleEscapeKey (lines 369-373) with the key check dropped.
handleAnyKey(k, o) == IF o THEN hideDropdown(o) ELSE o

\* handleEscapeKey (lines 369-373).
handleEscapeKey(k, o) == IF k = "Escape" /\ o THEN hideDropdown(o) ELSE o

\* n document-level click listeners run one after the other (capture phase).
RECURSIVE RunDocumentClick(_, _, _)
RunDocumentClick(n, t, o) ==
    IF n = 0 THEN o ELSE RunDocumentClick(n - 1, t, handleDocumentClick(t, o))

\* n document-level keydown listeners run one after the other.
RECURSIVE RunEscapeKey(_, _, _)
RunEscapeKey(n, k, o) ==
    IF n = 0 THEN o ELSE RunEscapeKey(n - 1, k, handleEscapeKey(k, o))

\* Every one of the n handleToggleClick listeners runs (stopPropagation in
\* place of stopImmediatePropagation).
ToggleListenersRunAll(n) == n

\* Of n handleToggleClick listeners on the toggle only the first runs: it calls
\* e.stopImmediatePropagation() (line 318).
ToggleListenersRun(n) == IF n > 0 THEN 1 ELSE 0

RECURSIVE RunToggleClick(_, _)
RunToggleClick(n, o) ==
    IF n = 0 THEN o ELSE RunToggleClick(n - 1, handleToggleClick(o))

\* --------------------------------------------------------------- notifier
\* showToast (lines 229-249) fails at toastContainer.appendChild (line 238)
\* when #toast-container is missing; nothing of it has happened by then.
showToastThrows == ~toastContainer

\* showToast appending the node twice.
showToastTwice(ts, kind) ==
    Append(Append(ts, [kind |-> kind, attached |-> TRUE, timer |-> TRUE]),
           [kind |-> kind, attached |-> TRUE, timer |-> TRUE])

\* showToast without the setTimeout of lines 241-243.
showToastNoTimer(ts, kind) ==
    Append(ts, [kind |-> kind, attached |-> TRUE, timer |-> FALSE])

\* showToast: one node appended, its 5000 ms removal timer started.
showToast(ts, kind) == Append(ts, [kind |-> kind, attached |-> TRUE, timer |-> TRUE])

\* toast.remove() (lines 242, 247) on toast i: the node leaves the container;
\* on a node that has left already it does nothing.
remove(ts, i) == [ts EXCEPT ![i].attached = FALSE]

\* ----------------------------------------------------------------- logout
\* What one run of performLogout works on.
LogoutState == [cookies |-> cookies, toasts |-> toasts, navPending |-> navPending,
                uncaught |-> uncaught, requests |-> requests]

\* performLogout (lines 405-417): expires user_email and user_session, shows
\* the success toast and starts the 1500 ms redirect timer.  It sends no
\* request and has no failure branch.  An error thrown by showToast leaves
\* the function before the timer is started and escapes the click listener.
performLogout(s) ==
    LET cleared == [s EXCEPT !.cookies = @ \ {"user_email", "user_session"}] IN
    IF showToastThrows
    THEN [cleared EXCEPT !.uncaught = @ + 1]
    ELSE [cleared EXCEPT !.toasts = showToast(@, "success"),
                         !.navPending = @ + 1]

\* The n click listeners of the logout item (lines 351-355) run one after the
\* other: e.stopPropagation() does not keep listeners of the same element back.
RECURSIVE RunLogout(_, _)
RunLogout(n, s) == IF n = 0 THEN s ELSE RunLogout(n - 1, performLogout(s))

\* ----------------------------------------------------------------- events
Present(t) ==
    CASE t = "toggle" -> toggle
      [] t = "menu" -> menu
      [] t = "logout" -> logoutBtn
      [] t = "profile" -> profileBtn
      [] OTHER -> TRUE

\* One click whose target is (inside) t.  The document's capture listeners run
\* first, then the listeners of the target: the toggle's (lines 315-329), the
\* logout item's (lines 351-355) or the profile item's, which only logs
\* (lines 360-365).
Click(t) ==
    /\ Alive
    /\ UNCHANGED validatorVars
    /\ Present(t)
    /\ t = "logout" => logoutClicks < MaxLogoutClicks
    /\ LET o1 == RunDocumentClick(Cardinality(docL), t, open)
           s1 == IF t = "logout"
                 THEN RunLogout(Cardinality(logoutL), LogoutState)
                 ELSE LogoutState
       IN /\ open' = IF t = "toggle"
                     THEN RunToggleClick(ToggleListenersRun(Cardinality(toggleL)), o1)
                     ELSE o1
          /\ cookies' = s1.cookies
          /\ toasts' = s1.toasts
          /\ navPending' = s1.navPending
          /\ uncaught' = s1.uncaught
          /\ requests' = s1.requests
    /\ logoutClicks' = IF t = "logout" THEN logoutClicks + 1 ELSE logoutClicks
    /\ lastEvent' = [type |-> "click", target |-> t, wasOpen |-> open,
                     toggleRan |-> IF t = "toggle"
                                   THEN ToggleListenersRun(Cardinality(toggleL))
                                   ELSE 0]
    /\ UNCHANGED <<domVars, phase, location, server, initVars, listenerVars, menuShow>>

\* One keydown with e.key = k.
KeyDown(k) ==
    /\ Alive
    /\ UNCHANGED validatorVars
    /\ open' = RunEscapeKey(Cardinality(keyL), k, open)
    /\ lastEvent' = [type |-> "keydown", target |-> k, wasOpen |-> open, toggleRan |-> 0]
    /\ UNCHANGED <<domVars, pageVars, initVars, listenerVars, menuShow, notifyVars,
                   logoutClicks>>

\* A click on the close button of toast i (lines 246-248).  The button lies
\* outside the dropdown, so while the toast is in the document the document's
\* click listeners see the click too; a click dispatched on the button of a
\* toast that has left the document reaches the button's listener only.
DismissToast(i) ==
    /\ Alive
    /\ UNCHANGED validatorVars
    /\ i \in DOMAIN toasts
    /\ toasts' = remove(toasts, i)
    /\ IF toasts[i].attached
       THEN /\ open' = RunDocumentClick(Cardinality(docL), "toast-close", open)
            /\ lastEvent' = [type |-> "click", target |-> "toast-close",
                             wasOpen |-> open, toggleRan |-> 0]
       ELSE UNCHANGED <<open, lastEvent>>
    /\ UNCHANGED <<domVars, pageVars, initVars, listenerVars, menuShow, navPending,
                   logoutClicks>>

\* The 5000 ms timer of toast i fires (lines 241-243): toast.remove().
ToastTimeout(i) ==
    /\ Alive
    /\ UNCHANGED validatorVars
    /\ i \in DOMAIN toasts
    /\ toasts[i].timer
    /\ toasts' = [remove(toasts, i) EXCEPT ![i].timer = FALSE]
    /\ UNCHANGED <<domVars, pageVars, initVars, listenerVars, dropVars, navPending,
                   histVars>>

\* A 1500 ms redirect timer fires (lines 414-416): the page is left.
NavigateHome ==
    /\ Alive
    /\ UNCHANGED validatorVars
    /\ navPending > 0
    /\ navPending' = navPending - 1
    /\ location' = "/"
    /\ UNCHANGED <<domVars, phase, cookies, server, requests, uncaught, initVars,
                   listenerVars, dropVars, toasts, histVars>>

\* container.cleanupDropdown() (lines 380-388): removes the listeners the
\* stored references name, which are those of the latest setup.  Removing a
\* listener that is not registered does nothing.
CallCleanupDropdown ==
    /\ Alive
    /\ UNCHANGED validatorVars
    /\ cleanupDropdown # 0
    /\ docL' = IF dropdownClickListener # 0 THEN docL \ {dropdownClickListener} ELSE docL
    /\ keyL' = IF escapeKeyListener # 0 THEN keyL \ {escapeKeyListener} ELSE keyL
    /\ toggleL' = toggleL \ {clickHandler}
    /\ UNCHANGED <<domVars, pageVars, initVars, nextId, logoutL, profileL, clickHandler,
                   dropdownClickListener, escapeKeyListener, cleanupDropdown, dropVars,
                   notifyVars, logoutClicks, lastEvent>>

Next ==
    \/ InsertContainer
    \/ InsertToggle
    \/ InsertMenu
    \/ DOMContentLoaded
    \/ \E l \in Loops : tryInitialize(l)
    \/ \E t \in Targets : Click(t)
    \/ \E k \in Keys : KeyDown(k)
    \/ \E i \in DOMAIN toasts : DismissToast(i)
    \/ \E i \in DOMAIN toasts : ToastTimeout(i)
    \/ NavigateHome
    \/ CallCleanupDropdown

Spec == Init /\ [][Next]_vars

\* The notifier on its own: a page that has the dropdown's elements at load,
\* and of the events only those that create, dismiss or expire a toast or
\* leave the page.  The other events neither read nor write the toasts.  A
\* timer that is pending fires unless the page is left first.
NotifierInit == Init /\ container /\ toggle /\ menu /\ server = "ok"

NotifierNext ==
    \/ DOMContentLoaded
    \/ \E l \in Loops : tryInitialize(l)
    \/ Click("logout")
    \/ \E i \in DOMAIN toasts : DismissToast(i)
    \/ \E i \in DOMAIN toasts : ToastTimeout(i)
    \/ NavigateHome

NotifierSpec ==
    /\ NotifierInit
    /\ [][NotifierNext]_vars
    /\ WF_vars(\E i \in DOMAIN toasts : ToastTimeout(i))

\* -------------------------------------------------------------- validator
\* Strings are sequences of one-character strings.
AsciiDigits == {"0", "1", "2", "3", "4", "5", "6", "7", "8", "9"}

\* \s (the characters of it that are tried)
Whitespace == {" ", "\t", "\n"}

\* [0-9] (line 258)
IsDigit(c) == c \in AsciiDigits

\* The length of the longest run of digits s starts with, up to max: what the
\* greedy [0-9]{10,12} consumes from the start of the input.
RECURSIVE DigitRun(_, _, _)
DigitRun(s, i, max) ==
    IF i > Len(s) \/ i > max \/ ~IsDigit(s[i]) THEN i - 1 ELSE DigitRun(s, i + 1, max)

\* /^[0-9]{10,12}/ without its $: at least 10 digits at the start.
validateMobileUnanchored(s) == DigitRun(s, 1, MobileMax) >= MobileMin

\* validateMobile (lines 257-260): /^[0-9]{10,12}$/.test(mobile).  The run of
\* digits at the start must have at least 10 digits and must end the input
\* (a shorter run cannot end it either: its next character is a digit).
validateMobile(s) ==
    LET n == DigitRun(s, 1, MobileMax) IN n >= MobileMin /\ n = Len(s)

\* [^\s] : the class of line 253 without its @.
IsNonSpace(c) == c \notin Whitespace

\* [^\s@] (line 253)
IsAddressChar(c) == c \notin Whitespace /\ c # "@"

\* /^[^\s@]+@[^\s@]+\.[^\s@]+$/ as an automaton.  Positions in the pattern:
\* 0 start, 1 inside the first [^\s@]+, 2 after @, 3 inside the second
\* [^\s@]+, 4 after \., 5 inside the third [^\s@]+ (where $ may match).
\* A dot inside the second run may be one more character of the run or the \.
EmailStep(q, c) ==
    CASE q = 0 -> IF IsAddressChar(c) THEN {1} ELSE {}
      [] q = 1 -> (IF IsAddressChar(c) THEN {1} ELSE {}) \cup (IF c = "@" THEN {2} ELSE {})
      [] q = 2 -> IF IsAddressChar(c) THEN {3} ELSE {}
      [] q = 3 -> (IF IsAddressChar(c) THEN {3} ELSE {}) \cup (IF c = "." THEN {4} ELSE {})
      [] q = 4 -> IF IsAddressChar(c) THEN {5} ELSE {}
      [] q = 5 -> IF IsAddressChar(c) THEN {5} ELSE {}

RECURSIVE EmailRun(_, _, _)
EmailRun(s, i, qs) ==
    IF i > Len(s) THEN qs
    ELSE EmailRun(s, i + 1, UNION {EmailStep(q, s[i]) : q \in qs})

\* validateEmail (lines 252-255): emailRegex.test(email).
validateEmail(s) == 5 \in EmailRun(s, 1, {0})

\* The strings the validators are tried on.  For validateMobile: the digit
\* strings 0123456789012.. of every length up to MaxMobileLen, and each of them
\* with one character replaced by a character that is no digit.
DigitString(n) == [i \in 1..n |-> <<"0", "1", "2", "3", "4", "5", "6", "7", "8", "9">>[((i - 1) % 10) + 1]]

NonDigits == {"a", " ", "+", "/", ":"}

MobileInputs ==
    UNION {{DigitString(n)} \cup {[DigitString(n) EXCEPT ![p] = c] : p \in 1..n, c \in NonDigits}
           : n \in 0..MaxMobileLen}

\* For validateEmail: every string over these characters up to MaxEmailLen,
\* and the examples.
EmailChars == {"a", "@", ".", " "}

\* The two strings spec.md names.
EmailExamples == {<<"a", "@", "b", ".", "c">>, <<"a", "@", "@", "b", ".", "c">>}

EmailInputs == EmailExamples \cup UNION {[1..n -> EmailChars] : n \in 0..MaxEmailLen}

\* The validators on their own (form code outside main.js calls them): the
\* input is drawn from the strings above and a validator is applied to it.
ValidatorInit ==
    /\ PageInit
    /\ container /\ toggle /\ menu /\ toastContainer /\ server = "ok"
    /\ input \in MobileInputs \cup EmailInputs
    /\ verdict = NoVerdict

CallValidateMobile ==
    /\ verdict' = [fn |-> "validateMobile", value |-> validateMobile(input)]
    /\ UNCHANGED <<domVars, pageVars, initVars, listenerVars, dropVars, notifyVars,
                   histVars, input>>

CallValidateEmail ==
    /\ verdict' = [fn |-> "validateEmail", value |-> validateEmail(input)]
    /\ UNCHANGED <<domVars, pageVars, initVars, listenerVars, dropVars, notifyVars,
                   histVars, input>>

ValidatorNext == CallValidateMobile \/ CallValidateEmail

ValidatorSpec == ValidatorInit /\ [][ValidatorNext]_vars

\* ================================================================= claims
NoListeners ==
    toggleL = {} /\ docL = {} /\ keyL = {} /\ logoutL = {} /\ profileL = {}

\* C1: every activation of the toggle of an initialised dropdown flips the open
\* marker: closed becomes open and open becomes closed, so two activations
\* restore the marker.
C1_ToggleFlips ==
    [][(Click("toggle") /\ toggleL # {}) => (open' = ~open)]_vars

\* C2: while the document-level handlers are attached, an activation outside
\* the toggle and the menu panel and an Escape key press leave the dropdown
\* closed; on a closed dropdown both change nothing; no key other than Escape
\* changes the marker.
C2_OnlyCloseWhenOpen ==
    [][/\ (docL # {} /\ (Click("outside") \/ \E i \in DOMAIN toasts : DismissToast(i)))
            => ~open'
       /\ (keyL # {} /\ KeyDown("Escape")) => ~open'
       /\ (~open /\ (\/ Click("outside")
                     \/ \E i \in DOMAIN toasts : DismissToast(i)
                     \/ \E k \in Keys : KeyDown(k))) => ~open'
       /\ \A k \in Keys \ {"Escape"} : KeyDown(k) => (open' = open)]_vars

\* An outside activation has just closed an open dropdown.
C2_Witness ==
    /\ lastEvent = [type |-> "click", target |-> "outside", wasOpen |-> TRUE,
                    toggleRan |-> 0]
    /\ docL # {}
    /\ ~open

\* C3: the session cookies are cleared, the success notification is shown and
\* the navigation to / is scheduled only after GET /logout has been sent and
\* has answered with success.
C3_ServerFirst ==
    (cookies # CookieNames \/ toasts # <<>> \/ navPending > 0 \/ location = "/")
        => (requests > 0 /\ server = "ok")

\* C4: once page initialisation has completed, one activation of the logout
\* item, with /logout answering success, creates exactly one success
\* notification and exactly one pending navigation to /.
C4_OneNotificationOneNavigation ==
    [][(/\ Click("logout")
        /\ phase = "ready" /\ pendingInit = {} /\ logoutL # {}
        /\ server = "ok" /\ toastContainer)
       => (/\ Len(toasts') = Len(toasts) + 1
           /\ toasts'[Len(toasts')].kind = "success"
           /\ navPending' = navPending + 1)]_vars

\* C5: when /logout answers with a failure or cannot be reached, logout shows
\* error notifications only, schedules no navigation and leaves the cookies
\* as they were.
C5_FailureLeavesSession ==
    server # "ok" =>
        /\ cookies = CookieNames
        /\ navPending = 0
        /\ location = "page"
        /\ \A i \in DOMAIN toasts : toasts[i].kind = "error"

\* C6: a setup attempt that found the child elements missing, and was not the
\* fifth, is followed by a retry.
C6_FailedAttemptRetried ==
    \A l \in Loops :
        (setupResult[l] = "missing" /\ attempts[l] < maxAttempts) => l \in pendingInit

\* C7: a retry loop makes at most 5 attempts and schedules none after the
\* fifth; while a required child element is missing no handler is bound and
\* no error has escaped.
C7_BoundedRetry ==
    /\ \A l \in Loops : attempts[l] <= maxAttempts
    /\ \A l \in Loops : attempts[l] >= maxAttempts => l \notin pendingInit
    /\ (~toggle \/ ~menu) => (NoListeners /\ uncaught = 0)

\* Both loops have run and ended on a page whose container lacks a child.
C7_Witness ==
    /\ phase = "ready"
    /\ readyContainer
    /\ ~toggle \/ ~menu
    /\ \A l \in Loops : attempts[l] >= 1 /\ setupResult[l] = "missing"
    /\ pendingInit = {}
    /\ NoListeners

\* C8: with the container absent at page-ready no setup attempt is scheduled
\* or run and no handler is bound.
C8_AbsentContainerSkipsSetup ==
    (phase = "ready" /\ ~readyContainer) =>
        /\ pendingInit = {}
        /\ \A l \in Loops : attempts[l] = 0
        /\ NoListeners

\* C9: at most one toggle-click handler, one document click handler and one
\* document keydown handler of the dropdown are attached at any time.
C9_BoundOnce ==
    /\ Cardinality(toggleL) <= 1
    /\ Cardinality(docL) <= 1
    /\ Cardinality(keyL) <= 1

\* C10: once cleanupDropdown() has returned, none of the handlers setup
\* registered is attached: toggle click, document click, Escape keydown and
\* the menu items' handlers.
C10_CleanupDetachesAll ==
    [][CallCleanupDropdown => NoListeners']_vars

\* C11: activating the profile item of an open, initialised dropdown closes
\* the dropdown (the navigation to /profile follows the close).
C11_ProfileCloses ==
    [][(Click("profile") /\ profileL # {} /\ open) => ~open']_vars

\* C12: activating the logout item of an initialised dropdown, open or closed,
\* leaves the dropdown closed.
C12_LogoutCloses ==
    [][(Click("logout") /\ logoutL # {}) => ~open']_vars

\* C13: every showToast call of a logout activation appends exactly one node
\* and leaves the toasts already there as they were; a click on the dismiss
\* control of a toast in the container removes that node and leaves every
\* other toast as it was.
C13_OneNodeInOneNodeOut ==
    [][/\ Click("logout") =>
            /\ Len(toasts') = Len(toasts)
                                + (IF toastContainer THEN Cardinality(logoutL) ELSE 0)
            /\ \A j \in DOMAIN toasts : toasts'[j] = toasts[j]
            /\ \A j \in DOMAIN toasts' \ DOMAIN toasts : toasts'[j].attached
       /\ \A i \in DOMAIN toasts :
            (DismissToast(i) /\ toasts[i].attached) =>
                /\ ~toasts'[i].attached
                /\ DOMAIN toasts' = DOMAIN toasts
                /\ \A j \in DOMAIN toasts \ {i} : toasts'[j] = toasts[j]]_vars

\* One toast was dismissed by its control (its timer is still pending) and
\* another one is still in the container.
C13_Witness ==
    \E i, j \in DOMAIN toasts :
        /\ i # j
        /\ ~toasts[i].attached /\ toasts[i].timer
        /\ toasts[j].attached

AttachedToast(i) == i \in DOMAIN toasts /\ toasts[i].attached

\* C14: a toast in the container is eventually out of it (its timer fires,
\* unless it is dismissed or the page is left before); a removal of a toast
\* that is out already, by its timer or by its dismiss control, changes no
\* toast's place in the container and raises no error.
C14_AutoRemovedIdempotent ==
    /\ \A i \in 1..(Cardinality(Loops) * MaxLogoutClicks) :
            AttachedToast(i) ~> (~AttachedToast(i) \/ ~Alive)
    /\ [][\A i \in DOMAIN toasts :
            ((ToastTimeout(i) \/ DismissToast(i)) /\ ~toasts[i].attached) =>
                /\ \A j \in DOMAIN toasts : toasts'[j].attached = toasts[j].attached
                /\ DOMAIN toasts' = DOMAIN toasts
                /\ uncaught' = uncaught]_vars

\* The timer of a toast fired after the toast had been dismissed.
C14_Witness ==
    /\ Len(toasts) = 1
    /\ ~toasts[1].attached /\ ~toasts[1].timer
    /\ lastEvent.target = "toast-close"

\* C15: validateMobile(s) is true exactly when s consists of ASCII digits only
\* and has 10, 11 or 12 characters.
C15_MobileDigits10To12 ==
    verdict.fn = "validateMobile" =>
        (verdict.value <=> (/\ Len(input) \in 10..12
                            /\ \A i \in DOMAIN input : input[i] \in AsciiDigits))

\* A string of 12 digits was accepted.
C15_Witness ==
    /\ verdict = [fn |-> "validateMobile", value |-> TRUE]
    /\ Len(input) = 12

Count(s, c) == Cardinality({i \in DOMAIN s : s[i] = c})

NearAt(s) ==
    \E i \in DOMAIN s :
        /\ s[i] = "@"
        /\ \/ (i > 1 /\ s[i - 1] \in Whitespace)
           \/ (i < Len(s) /\ s[i + 1] \in Whitespace)

\* s[a..b] is not empty
NonEmpty(a, b) == a <= b

\* s[a..b] holds no whitespace and no @
Clean(s, a, b) == \A k \in a..b : s[k] \notin Whitespace /\ s[k] # "@"

\* What the claim says of every string: no @, several @ or whitespace next to
\* an @ give false, and a@b.c gives true.
EmailCases(s, v) ==
    /\ (Count(s, "@") # 1 \/ NearAt(s)) => ~v
    /\ s = <<"a", "@", "b", ".", "c">> => v

\* C16 as stated: validateEmail accepts exactly the strings local@domain.tld
\* whose three parts are not empty and whose local part holds no whitespace
\* and no @.
C16_LocalPartOnly ==
    verdict.fn = "validateEmail" =>
        /\ EmailCases(input, verdict.value)
        /\ verdict.value <=>
             \E i, j \in DOMAIN input :
                /\ i < j /\ input[i] = "@" /\ input[j] = "."
                /\ NonEmpty(1, i - 1) /\ Clean(input, 1, i - 1)
                /\ NonEmpty(i + 1, j - 1)
                /\ NonEmpty(j + 1, Len(input))

\* C16 amended: validateEmail accepts exactly the strings local@domain.tld
\* whose three parts are not empty and hold no whitespace and no @.
C16_EveryPartClean ==
    verdict.fn = "validateEmail" =>
        /\ EmailCases(input, verdict.value)
        /\ verdict.value <=>
             \E i, j \in DOMAIN input :
                /\ i < j /\ input[i] = "@" /\ input[j] = "."
                /\ NonEmpty(1, i - 1) /\ Clean(input, 1, i - 1)
                /\ NonEmpty(i + 1, j - 1) /\ Clean(input, i + 1, j - 1)
                /\ NonEmpty(j + 1, Len(input)) /\ Clean(input, j + 1, Len(input))

\* A string with whitespace in its last part, away from the @, was rejected.
C16_Witness ==
    /\ verdict = [fn |-> "validateEmail", value |-> FALSE]
    /\ input = <<"a", "@", "a", ".", " ", "a">>

\* C17: a click inside the toggle or inside the menu panel is not taken for an
\* outside click: a click on the toggle of a closed dropdown that reached the
\* toggle handler ends with the dropdown open (the document's capture
\* listeners ran first), and a click inside the open menu panel leaves it open.
C17_InsideIsNotOutside ==
    /\ (/\ lastEvent.type = "click" /\ lastEvent.target = "toggle"
        /\ lastEvent.toggleRan >= 1 /\ ~lastEvent.wasOpen) => open
    /\ (/\ lastEvent.type = "click" /\ lastEvent.target = "menu"
        /\ lastEvent.wasOpen) => open

\* A click inside the menu panel of an open dropdown, with the document's
\* click listener attached, has left the dropdown open.
C17_Witness ==
    /\ lastEvent.type = "click" /\ lastEvent.target = "menu" /\ lastEvent.wasOpen
    /\ docL # {}
    /\ open

\* C18: a second activation of the logout item while the first run is pending
\* starts one more run of the logout protocol: one more notification and one
\* more scheduled navigation, two of each in all.
C18_SecondRunOnly ==
    [][(/\ Click("logout")
        /\ logoutL # {} /\ toastContainer
        /\ logoutClicks = 1 /\ navPending >= 1)
       => (/\ Len(toasts') = Len(toasts) + 1
           /\ navPending' = navPending + 1)]_vars

\* C19: one click on the toggle runs at most one toggle handler, however many
\* are bound.
C19_OneToggleHandlerPerClick ==
    lastEvent.toggleRan <= 1

\* A click on a toggle that carries two handlers ran one of them.
C19_Witness ==
    /\ lastEvent.type = "click" /\ lastEvent.target = "toggle"
    /\ lastEvent.toggleRan = 1
    /\ Cardinality(toggleL) = 2

====
